---- MODULE Spec2Model ----
(***************************************************************************)
(* Voice-driven cooking session of foodly.                                 *)
(*                                                                         *)
(*   StepNavigator        src/unnamed/part_005, lines 188-333              *)
(*   useSpeechSynthesis   src/frontend/src/hooks/useSpeech.ts, 212-325     *)
(*   useSpeechRecognition src/frontend/src/hooks/useSpeech.ts, 50-210      *)
(*                                                                         *)
(* The program is single threaded (React 18): every handler runs to        *)
(* completion, its state updates are batched, and the render and the       *)
(* effects they cause follow before the next event is handled.  An action  *)
(* below is one handler together with that render and its effects.         *)
(*                                                                         *)
(* The browser is the environment.  An <audio> element keeps the handlers  *)
(* speak() gave it after stop() has dropped it from audioRef; pause() on   *)
(* an element whose play() promise is still pending rejects that promise   *)
(* (HTML: pause steps); a load failure fires the error event and rejects   *)
(* the pending promise in one task (HTML: dedicated media source failure   *)
(* steps); speechSynthesis.cancel() ends a queued or spoken utterance with *)
(* an error event (canceled / interrupted), never with an end event (Web   *)
(* Speech API).  Two events are taken to be delivered before any other     *)
(* handler runs: the play event that play() queues, and the error event of *)
(* a cancelled utterance.  All other events interleave freely.             *)
(***************************************************************************)
EXTENDS Integers, Sequences, FiniteSets, TLC

\* ------------------------------------------------------------------ bounds
NumSteps == 2       \* steps.length of the recipe being cooked
MaxNarr == 2        \* speak() calls that still have a handler to run, at once
MaxTimers == 1      \* auto-advance pause timers pending at once
MaxLen == 2         \* characters of a transcript
MaxResults == 2     \* results one result event delivers
MaxTicks == 2       \* clock ticks followed
MaxRestarts == 1    \* restart timers of recognition.onend pending at once

Steps == 0 .. (NumSteps - 1)
NarIds == 1 .. MaxNarr

VARIABLES
    \* StepNavigator (part_005:191-197)
    currentStep, completedSteps, autoAdvance, isPlaying,
    storedAutoPlay,     \* localStorage['foodly:autoPlay']
    timers,             \* pending setTimeout callbacks of the auto-play effect,
                        \* by the currentStep their closures captured
    \* the recipe
    audioSteps,         \* the steps that carry an audio_url
    \* useSpeechSynthesis (useSpeech.ts:213-216)
    isSpeaking, ttsSupported, audioRef,
    \* the browser's side of narration
    audio,              \* the Audio element each speak() call made
    synth,              \* the utterance queue of speechSynthesis
    \* speak() calls that can still run a handler, and the latest one
    nar, last,
    \* useSpeechRecognition (useSpeech.ts:51-58)
    isListening, shouldListen, transcript, commandsRef, lastCommandAt,
    \* the browser's side of recognition, and the clock
    engine,             \* the SpeechRecognition object: idle | running | stopping
    restarts,           \* pending setTimeout callbacks of recognition.onend
    now,                \* Date.now()
    \* observation only
    torn,               \* the cleanup of the initialising effect has run
    heard,              \* the last two result events that are within the
                        \* throttle window of the clock
    sessionRan,         \* a command action has run in the engine's session
    lastCall,           \* the last call a caller made on the player: speak or stop
    fired               \* what the last step did: an onEnd invocation, a pause
                        \* timer firing, a clip failing, a call of the player

navVars == <<currentStep, completedSteps, autoAdvance, isPlaying, storedAutoPlay, timers>>
playerVars == <<isSpeaking, audioRef, audio, synth, nar, last, lastCall>>
recVars == <<isListening, shouldListen, transcript, commandsRef, lastCommandAt,
             engine, restarts, now, torn, heard, sessionRan>>
vars == <<navVars, playerVars, recVars, audioSteps, ttsSupported, fired>>

\* ------------------------------------------------------- NarrationPlayer
\* An Audio element: none | loading | playing | halted (paused by stop()) |
\* ended | failed | blocked; rej: the rejection of its play() promise is queued.
NoAudio == [st |-> "none", rej |-> FALSE]

\* A speak() call: the step whose text it was given and the onEnd it was
\* given: "none", "auto" (the callback of the auto-play effect, closed over
\* that step and over the preference adv) or "probe" (a caller's callback
\* that is only observed).  Observed: stopped, stop() was called while the
\* call was in progress; cbs, the invocations of its onEnd.
NoNar == [used |-> FALSE, step |-> 0, cb |-> "none", adv |-> FALSE,
          stopped |-> FALSE, cbs |-> 0]

NoFire == [kind |-> "none"]

\* The player as one value, so that a handler's calls compose.  spoke: the
\* handler called speak(); over: more calls are alive than the model follows.
Player ==
    [isSpeaking |-> isSpeaking, audioRef |-> audioRef, audio |-> audio,
     synth |-> synth, nar |-> nar, last |-> last,
     lastCall |-> lastCall, spoke |-> FALSE, over |-> FALSE]

InQueue(P, n) == \E i \in 1 .. Len(P.synth) : P.synth[i].nar = n

\* A handler of the n-th call can still run.
Alive(P, n) ==
    \/ P.audio[n].st \in {"loading", "playing"}
    \/ P.audio[n].rej
    \/ InQueue(P, n)

\* Calls none of whose handlers can run any more are forgotten, but `keep`.
Forget(P, keep) ==
    [P EXCEPT !.nar = [n \in NarIds |->
                         IF n = keep \/ Alive(P, n) THEN P.nar[n] ELSE NoNar],
              !.audio = [n \in NarIds |->
                         IF n = keep \/ Alive(P, n) THEN P.audio[n] ELSE NoAudio]]

SetPlayer(P) ==
    \E Q \in {Forget(P, P.last)} :
       /\ ~P.over
       /\ isSpeaking' = Q.isSpeaking
       /\ audioRef' = Q.audioRef
       /\ audio' = Q.audio
       /\ synth' = Q.synth
       /\ nar' = Q.nar
       /\ last' = Q.last
       /\ lastCall' = Q.lastCall

\* The n-th speak() call still has a backend that is loading, queued or audible.
InProgress(P, n) ==
    \/ P.audioRef = n /\ P.audio[n].st \in {"loading", "playing"}
    \/ InQueue(P, n)

\* window.speechSynthesis.cancel(): the queue is emptied; the utterances that
\* were queued or being spoken get an error event, and their onerror runs.
synthCancel(P) ==
    IF P.synth = <<>> THEN P
    ELSE [P EXCEPT !.synth = <<>>, !.isSpeaking = FALSE]

\* audio.pause(); audio.currentTime = 0.  A play() promise still pending is
\* rejected by a task queued now.
audioPause(P, a) ==
    IF P.audio[a].st = "loading"
    THEN [P EXCEPT !.audio[a] = [st |-> "halted", rej |-> TRUE]]
    ELSE IF P.audio[a].st = "playing"
    THEN [P EXCEPT !.audio[a].st = "halted"]
    ELSE P

\* A stop() that flips the speaking flag instead of clearing it.
stopFlipsSpeaking(P) == [P EXCEPT !.isSpeaking = ~P.isSpeaking]

\* stop (useSpeech.ts:222-232)
stop(P) ==
    LET P1 == IF ttsSupported THEN synthCancel(P) ELSE P
        P2 == IF P1.audioRef # 0
              THEN [audioPause(P1, P1.audioRef) EXCEPT !.audioRef = 0]
              ELSE P1
    IN [P2 EXCEPT !.isSpeaking = FALSE]

\* speakBrowser without the cancel() that precedes speak().
speakBrowserNoCancel(P, n) ==
    IF ~ttsSupported THEN P
    ELSE [P EXCEPT !.synth = Append(P.synth, [nar |-> n, st |-> "pending"])]

speakBrowser(P, n) ==
    IF ~ttsSupported THEN P
    ELSE LET P1 == synthCancel(P)
         IN [P1 EXCEPT !.synth = Append(P1.synth, [nar |-> n, st |-> "pending"])]

\* speak(text, onEnd, audioUrl) for the text of `step`; url: an audioUrl is
\* given.  blocked: the browser
\* refuses play() at once (autoplay policy) and the catch runs before any
\* other task.  Otherwise play() queues the play event as the element's first
\* task, and audio.onplay runs before any other handler.
speak(P, step, cb, adv, url, blocked) ==
    LET P0 == Forget(stop(P), 0)
        free == {n \in NarIds : ~P0.nar[n].used}
    IN IF free = {} THEN [P EXCEPT !.over = TRUE]
       ELSE
       LET n == CHOOSE m \in free : \A k \in free : m <= k
           P1 == [P0 EXCEPT !.last = n, !.spoke = TRUE,
                            !.nar[n] = [NoNar EXCEPT !.used = TRUE, !.step = step,
                                                     !.cb = cb, !.adv = adv]]
       IN IF url
          THEN IF blocked
               THEN speakBrowser(
                       [P1 EXCEPT !.audioRef = n,
                                  !.audio[n] = [st |-> "blocked", rej |-> FALSE]], n)
               ELSE [P1 EXCEPT !.audioRef = n, !.isSpeaking = TRUE,
                               !.audio[n] = [st |-> "loading", rej |-> FALSE]]
          ELSE speakBrowser(P1, n)

\* --------------------------------------------------------- StepNavigator
\* goToNext / goToPrev as closed over the render whose currentStep was
\* `seen`; the update itself is functional (prev => prev + 1).
goToNext(seen, cs) == IF seen < NumSteps - 1 THEN cs + 1 ELSE cs

goToPrev(seen, cs) == IF seen > 0 THEN cs - 1 ELSE cs

\* A readCurrentStep that always reads the first step.
readFirstStep(P, cs, cb, adv, blocked) ==
    IF cs \in Steps THEN speak(P, 0, cb, adv, 0 \in audioSteps, blocked) ELSE P

\* readCurrentStep (part_005:227-242)
readCurrentStep(P, cs, cb, adv, blocked) ==
    IF cs \in Steps THEN speak(P, cs, cb, adv, cs \in audioSteps, blocked) ELSE P

\* An auto-play effect that narrates whether or not synthesis is supported.
autoPlayEffectAnyway(P, cs, ip, aa, blocked) ==
    IF ip THEN readCurrentStep(P, cs, "auto", aa, blocked)
    ELSE IF ~ip /\ P.isSpeaking THEN stop(P)
    ELSE P

\* An auto-play effect that only stops, and never narrates.
autoPlayEffectStopsOnly(P, cs, ip, aa, blocked) ==
    IF ~ip /\ P.isSpeaking THEN stop(P) ELSE P

\* The auto-play effect (part_005:294-314) of the render with cs, ip, aa.
autoPlayEffect(P, cs, ip, aa, blocked) ==
    IF ip /\ ttsSupported THEN readCurrentStep(P, cs, "auto", aa, blocked)
    ELSE IF ~ip /\ P.isSpeaking THEN stop(P)
    ELSE P

\* The auto-play effect runs after a render in which one of its dependencies
\* [currentStep, isPlaying, autoAdvance, ttsSupported] changed.
EffectDue(cs, ip, aa) == <<cs, ip, aa>> # <<currentStep, isPlaying, autoAdvance>>

\* A persist effect that writes the preference as "on" / "off".
persistOnOff(aa) == IF aa THEN "on" ELSE "off"

\* The persist effect (part_005:288-291): what setItem stores for autoAdvance.
persist(aa) == IF aa THEN "true" ELSE "false"

\* The initial autoAdvance (part_005:193-196) of a session that finds
\* `stored` under the key.
initialAutoAdvance(stored) == stored = "true"

\* Render with an auto-play effect that does not depend on currentStep.
RenderNoStepDep(P, cs, ip, aa, blocked, ob) ==
    \E Q \in {IF <<ip, aa>> # <<isPlaying, autoAdvance>>
              THEN autoPlayEffect(P, cs, ip, aa, blocked) ELSE P} :
       /\ currentStep' = cs
       /\ isPlaying' = ip
       /\ autoAdvance' = aa
       /\ storedAutoPlay' = persist(aa)
       /\ SetPlayer(Q)
       /\ fired' = IF ob.kind = "timer" THEN [ob EXCEPT !.spoke = Q.spoke] ELSE ob
       /\ UNCHANGED recVars

\* The render that follows a handler, with its effects: the persist effect
\* (part_005:288-291) and the auto-play effect.  ob: what the handler did.
Render(P, cs, ip, aa, blocked, ob) ==
    \E Q \in {IF EffectDue(cs, ip, aa) THEN autoPlayEffect(P, cs, ip, aa, blocked) ELSE P} :
       /\ currentStep' = cs
       /\ isPlaying' = ip
       /\ autoAdvance' = aa
       /\ storedAutoPlay' = persist(aa)
       /\ SetPlayer(Q)
       /\ fired' = IF ob.kind = "timer" THEN [ob EXCEPT !.spoke = Q.spoke] ELSE ob
       /\ UNCHANGED recVars

RECURSIVE SumTo(_, _)
SumTo(f, k) == IF k < 0 THEN 0 ELSE f[k] + SumTo(f, k - 1)

TimerCount == SumTo(timers, NumSteps - 1)

\* Whether play() may be refused is a choice only where speak() plays a clip.
Refusals(plays) == IF plays THEN BOOLEAN ELSE {FALSE}

\* `if (onEnd) onEnd()` for the call n, then the render.  via: the backend
\* that ended.  The auto-play effect's callback (part_005:297-309) sets the
\* pause timer or leaves AutoPlaying.
Completed(P, n, via) ==
    LET c == P.nar[n]
    IN /\ UNCHANGED <<completedSteps, audioSteps, ttsSupported>>
       /\ CASE c.cb = "auto" /\ c.adv /\ c.step < NumSteps - 1 ->
                 /\ TimerCount < MaxTimers
                 /\ timers' = [timers EXCEPT ![c.step] = @ + 1]
                 /\ Render(P, currentStep, isPlaying, autoAdvance, FALSE, NoFire)
            [] c.cb = "auto" /\ ~(c.adv /\ c.step < NumSteps - 1) ->
                 /\ timers' = timers
                 /\ Render(P, currentStep, FALSE, autoAdvance, FALSE, NoFire)
            [] c.cb = "probe" ->
                 /\ timers' = timers
                 /\ Render([P EXCEPT !.nar[n].cbs = IF @ < 2 THEN @ + 1 ELSE @],
                           currentStep, isPlaying, autoAdvance, FALSE,
                           [kind |-> "onEnd", nar |-> n, via |-> via,
                            stopped |-> c.stopped,
                            cbs |-> IF c.cbs < 2 THEN c.cbs + 1 ELSE c.cbs,
                            stale |-> n # P.last,
                            audioDown |-> P.audio[n].st \in {"failed", "blocked"}])
            [] OTHER ->
                 /\ timers' = timers
                 /\ Render(P, currentStep, isPlaying, autoAdvance, FALSE, NoFire)

\* A handler that only touches the player.
PlayerOnly(P, ob) ==
    /\ Render(P, currentStep, isPlaying, autoAdvance, FALSE, ob)
    /\ UNCHANGED <<completedSteps, timers, audioSteps, ttsSupported>>

\* A handler of StepNavigator: new cursor, playing flag and preference.
Nav(P, cs, ip, aa, ob) ==
    /\ \E blocked \in Refusals(ip /\ ttsSupported /\ cs \in audioSteps) :
          Render(P, cs, ip, aa, blocked, ob)
    /\ UNCHANGED <<completedSteps, timers, audioSteps, ttsSupported>>

\* ------------------------------------------------------ browser events
\* enough data has arrived: the clip becomes audible, the promise resolves
AudioCanPlay(n) ==
    /\ audio[n].st = "loading"
    /\ PlayerOnly([Player EXCEPT !.audio[n].st = "playing"], NoFire)

\* audio.onended
AudioOnEnded(n) ==
    /\ audio[n].st = "playing"
    /\ Completed([Player EXCEPT !.audio[n].st = "ended", !.isSpeaking = FALSE], n, "audio")

\* What a failure of the clip of call n is observed to be.
ClipFailed(n, how) ==
    [kind |-> "clipFailed", nar |-> n, how |-> how,
     cut |-> n # last \/ nar[n].stopped]

\* the clip cannot be loaded: audio.onerror, then the catch of play()
AudioLoadError(n) ==
    /\ audio[n].st = "loading"
    /\ PlayerOnly(speakBrowser(speakBrowser([Player EXCEPT !.audio[n].st = "failed"], n), n),
                  ClipFailed(n, "both"))

\* the clip fails while it plays: audio.onerror
AudioPlayError(n) ==
    /\ audio[n].st = "playing"
    /\ PlayerOnly(speakBrowser([Player EXCEPT !.audio[n].st = "failed"], n),
                  ClipFailed(n, "error"))

\* the catch of a play() promise that pause() rejected
AudioAbortReject(n) ==
    /\ audio[n].rej
    /\ PlayerOnly(speakBrowser([Player EXCEPT !.audio[n].rej = FALSE], n), NoFire)

\* utterance.onstart
SynthOnStart ==
    /\ synth # <<>> /\ synth[1].st = "pending"
    /\ PlayerOnly([Player EXCEPT !.synth[1].st = "speaking", !.isSpeaking = TRUE], NoFire)

\* utterance.onend
SynthOnEnd ==
    /\ synth # <<>> /\ synth[1].st = "speaking"
    /\ Completed([Player EXCEPT !.synth = Tail(synth), !.isSpeaking = FALSE],
                 synth[1].nar, "synth")

\* utterance.onerror: the engine fails on the utterance
SynthOnError ==
    /\ synth # <<>>
    /\ PlayerOnly([Player EXCEPT !.synth = Tail(synth), !.isSpeaking = FALSE], NoFire)

\* the setTimeout callback of the auto-play effect (part_005:301-305): its
\* isPlaying and its goToNext are those of the render that narrated step s
TimerFire(s) ==
    /\ timers[s] > 0
    /\ timers' = [timers EXCEPT ![s] = @ - 1]
    /\ \E blocked \in Refusals(isPlaying /\ goToNext(s, currentStep) \in audioSteps) :
          Render(Player, goToNext(s, currentStep), isPlaying, autoAdvance, blocked,
                 [kind |-> "timer", after |-> IF fired.kind = "exit" THEN "exit" ELSE "none",
                  step |-> s, from |-> currentStep,
                  playing |-> isPlaying, adv |-> autoAdvance, spoke |-> FALSE])
    /\ UNCHANGED <<completedSteps, audioSteps, ttsSupported>>

\* What leaving AutoPlaying by the play/pause control or by the stop command
\* is observed to be: an exit during the pause that follows a narration.
Exit ==
    IF isPlaying /\ TimerCount > 0 /\ ~InProgress(Player, last)
    THEN [kind |-> "exit"] ELSE NoFire

\* What pressing play or saying "play" is observed to be when it is done
\* while not AutoPlaying.
Entered == IF ~isPlaying THEN [kind |-> "play"] ELSE NoFire

\* ---------------------------------------------------------- the buttons
ClickNext ==
    /\ currentStep \in Steps /\ currentStep # NumSteps - 1
    /\ Nav(Player, goToNext(currentStep, currentStep), FALSE, autoAdvance, NoFire)

ClickPrev ==
    /\ currentStep \in Steps /\ currentStep # 0
    /\ Nav(Player, goToPrev(currentStep, currentStep), FALSE, autoAdvance, NoFire)

ClickPill(i) == Nav(Player, i, FALSE, autoAdvance, NoFire)

ClickPlayPause ==
    /\ ttsSupported
    /\ Nav(Player, currentStep, ~isPlaying, autoAdvance, IF isPlaying THEN Exit ELSE Entered)

ClickAutoAdvance == Nav(Player, currentStep, isPlaying, ~autoAdvance, NoFire)

\* A toggle that only ever marks a step.
toggleMarksOnly(set, i) == set \cup {i}

\* toggleStepComplete (part_005:316-326), as the update of the set
toggleStepComplete(set, i) == IF i \in set THEN set \ {i} ELSE set \cup {i}

ClickMarkDone ==
    /\ currentStep \in Steps
    /\ completedSteps' = toggleStepComplete(completedSteps, currentStep)
    /\ Render(Player, currentStep, isPlaying, autoAdvance, FALSE, NoFire)
    /\ UNCHANGED <<timers, audioSteps, ttsSupported>>

resetRecipe ==
    /\ completedSteps' = {}
    /\ Render(Player, 0, FALSE, autoAdvance, FALSE, NoFire)
    /\ UNCHANGED <<timers, audioSteps, ttsSupported>>

\* ---------------------------------------------------- the voice commands
\* voiceCommands[k].action (part_005:245-278), run by the recognition hook
\* with the closures of the latest render.
CmdNext == Nav(stop(Player), goToNext(currentStep, currentStep), FALSE, autoAdvance, NoFire)

CmdBack == Nav(stop(Player), goToPrev(currentStep, currentStep), FALSE, autoAdvance, NoFire)

CmdRepeat ==
    \E blocked \in Refusals(currentStep \in audioSteps) :
        Nav(readCurrentStep(Player, currentStep, "none", FALSE, blocked),
            currentStep, isPlaying, autoAdvance, NoFire)

CmdStop == Nav(stop(Player), currentStep, FALSE, autoAdvance, Exit)

CmdPlay == Nav(Player, currentStep, TRUE, autoAdvance, Entered)

CmdAutoToggle == Nav(Player, currentStep, isPlaying, ~autoAdvance, NoFire)

CmdAutoOn == Nav(Player, currentStep, TRUE, TRUE, NoFire)

CmdAutoOff == Nav(Player, currentStep, isPlaying, FALSE, NoFire)

\* ------------------------------------------------- useSpeechRecognition
\* A string is a sequence of characters.
Chars == {"a", "b", "A", " "}

Lower(c) == IF c = "A" THEN "a" ELSE c

\* String.prototype.toLowerCase
toLowerCase(str) == [i \in 1 .. Len(str) |-> Lower(str[i])]

\* String.prototype.trim
RECURSIVE trim(_)
trim(str) ==
    IF str = <<>> THEN str
    ELSE IF Head(str) = " " THEN trim(Tail(str))
    ELSE IF str[Len(str)] = " " THEN trim(SubSeq(str, 1, Len(str) - 1))
    ELSE str

\* A containment test that also accepts a transcript that is part of the
\* phrase.
includesEitherWay(str, p) ==
    \/ \E i \in 0 .. (Len(str) - Len(p)) : SubSeq(str, i + 1, i + Len(p)) = p
    \/ \E i \in 0 .. (Len(p) - Len(str)) : SubSeq(p, i + 1, i + Len(str)) = str

\* String.prototype.includes
includes(str, p) ==
    \E i \in 0 .. (Len(str) - Len(p)) : SubSeq(str, i + 1, i + Len(p)) = p

\* for (const phrase of command.phrases) from the j-th phrase on: a phrase hits
RECURSIVE phraseHits(_, _, _)
phraseHits(lowerTranscript, phrases, j) ==
    IF j > Len(phrases) THEN FALSE
    ELSE IF includes(lowerTranscript, toLowerCase(phrases[j])) THEN TRUE
    ELSE phraseHits(lowerTranscript, phrases, j + 1)

\* The command that the loops return at, from the k-th on.
findLastCommand(lowerTranscript, commands, k) ==
    LET hits == {c \in k .. Len(commands) : phraseHits(lowerTranscript, commands[c], 1)}
    IN IF hits = {} THEN 0 ELSE CHOOSE c \in hits : \A d \in hits : d <= c

\* for (const command of commandsRef.current) from the k-th command on: the
\* command whose phrase hits first, 0 if the loops run out
RECURSIVE findCommand(_, _, _)
findCommand(lowerTranscript, commands, k) ==
    IF k > Len(commands) THEN 0
    ELSE IF phraseHits(lowerTranscript, commands[k], 1) THEN k
    ELSE findCommand(lowerTranscript, commands, k + 1)

ThrottleMs == 400

TickMs == ThrottleMs \div 2

\* Date.now() when the page is opened: later than the throttle window
StartMs == ThrottleMs + TickMs

\* A throttle whose window is half as long.
ThrottledHalf(t, lastAt) == t - lastAt < TickMs

\* A throttle that suppresses nothing.
ThrottledNever(t, lastAt) == FALSE

\* now - lastCommandAtRef.current < 400
Throttled(t, lastAt) == t - lastAt < ThrottleMs

Strings(n) == UNION {[1 .. l -> Chars] : l \in 0 .. n}

RECURSIVE concat(_, _)
concat(results, final) ==
    IF results = <<>> THEN <<>>
    ELSE (IF Head(results).isFinal = final THEN Head(results).text ELSE <<>>)
         \o concat(Tail(results), final)

\* The results of one event, from event.resultIndex on: one result with at
\* most one character, or several with one character each, MaxLen
\* characters at most in all.
ResultLists ==
    {r \in [{1} -> [isFinal : BOOLEAN, text : Strings(1)]]
           \cup UNION {[1 .. l -> [isFinal : BOOLEAN, text : [{1} -> Chars]]] :
                           l \in 2 .. MaxResults} :
        Len(concat(r, TRUE)) + Len(concat(r, FALSE)) <= MaxLen}

\* The command lists a caller registers: phrases are non-empty strings.
CommandLists ==
    { << <<<<"a">>>>, <<<<"a", "b">>, <<"b">>>> >>,
      << <<<<"a", "b">>>>, <<<<"b">>, <<"A">>>> >>,
      << <<<<"b">>, <<"a", " ">>>> >> }

NoEvent == [at |-> 0, matched |-> FALSE, ran |-> FALSE]

\* recognition.start(): throws, and is ignored, unless the object is idle
recStart(e) == IF e = "idle" THEN "running" ELSE e

\* A recognition.stop() that is left out.
recStopNever(e) == e

\* recognition.stop(): ignored unless the object is running
recStop(e) == IF e = "running" THEN "stopping" ELSE e

RecUnchanged == UNCHANGED <<navVars, playerVars, audioSteps, ttsSupported>>

\* Whether a command action has run in the engine's session, once the
\* engine is e2 and a handler runs one or not: a session lasts from the
\* start of the engine to its end.
Session(e2, ran, runs) == IF e2 = "idle" THEN FALSE ELSE ran \/ runs

\* Handlers that were never detached.
detachedNever(t) == FALSE

\* recognitionRef.current.onend = onerror = onresult = null (useSpeech.ts:155-157)
detached(t) == t

\* An event for which no handler is registered: the engine alone moves.
Dropped(e2) ==
    /\ engine' = e2
    /\ fired' = [kind |-> "dropped"]
    /\ sessionRan' = Session(e2, sessionRan, FALSE)
    /\ UNCHANGED <<isListening, shouldListen, transcript, commandsRef,
                   lastCommandAt, restarts, now, torn, heard>>
    /\ RecUnchanged

\* recognition.onresult (useSpeech.ts:77-121), then the render.  The matched
\* command's action is observed, not run.
OnResult(results) ==
    \E currentTranscript \in {concat(results, TRUE) \o concat(results, FALSE)} :
    \E k \in {IF currentTranscript = <<>> THEN 0
              ELSE findCommand(trim(toLowerCase(currentTranscript)), commandsRef, 1)} :
    \E runs \in {k > 0 /\ ~Throttled(now, lastCommandAt)} :
       /\ engine \in {"running", "stopping"}
       /\ IF detached(torn) THEN Dropped(engine)
          ELSE
          /\ transcript' = IF runs THEN <<>> ELSE currentTranscript
          /\ lastCommandAt' = IF runs THEN now ELSE lastCommandAt
          /\ engine' = IF runs THEN recStop(engine) ELSE engine
          /\ heard' = <<heard[2], IF k > 0
                                    THEN [at |-> now, matched |-> TRUE, ran |-> runs]
                                    ELSE NoEvent>>
          /\ sessionRan' = Session(engine', sessionRan, runs)
          /\ fired' = [kind |-> "result", text |-> currentTranscript,
                       window |-> Throttled(now, lastCommandAt),
                       ran |-> IF runs THEN k ELSE 0,
                       again |-> runs /\ sessionRan]
          /\ UNCHANGED <<isListening, shouldListen, commandsRef, restarts, now, torn>>
          /\ RecUnchanged

\* recognition.onend (useSpeech.ts:123-136): the object ends, by stop() or
\* of itself
RecOnEnd ==
    /\ engine \in {"running", "stopping"}
    /\ IF detached(torn) THEN Dropped("idle")
       ELSE
       /\ engine' = "idle"
       /\ shouldListen => restarts < MaxRestarts
       /\ restarts' = IF shouldListen THEN restarts + 1 ELSE restarts
       /\ fired' = NoFire
       /\ sessionRan' = FALSE
       /\ UNCHANGED <<isListening, shouldListen, transcript, commandsRef,
                      lastCommandAt, now, torn, heard>>
       /\ RecUnchanged

\* A restart timer that does not look at the listening intent.
restartAlways(intent, e) == recStart(e)

\* if (shouldListenRef.current && recognitionRef.current) start()
restart(intent, e) == IF intent THEN recStart(e) ELSE e

\* the setTimeout callback of recognition.onend (useSpeech.ts:126-134); it
\* is not cleared by the cleanup
RestartFire ==
    /\ restarts > 0
    /\ restarts' = restarts - 1
    /\ engine' = restart(shouldListen, engine)
    /\ sessionRan' = Session(engine', sessionRan, FALSE)
    /\ fired' = [kind |-> "restart", intent |-> shouldListen]
    /\ UNCHANGED <<isListening, shouldListen, transcript, commandsRef,
                   lastCommandAt, now, torn, heard>>
    /\ RecUnchanged

\* A listening effect that starts the engine but never stops it.
listeningEffectStartsOnly(l, e) == IF l THEN recStart(e) ELSE e

\* The listening effect (useSpeech.ts:168-184) of a render with isListening = l.
listeningEffect(l, e) == IF l THEN recStart(e) ELSE recStop(e)

\* An onerror that takes every error for an expected one.
benignAlways(errorType) == TRUE

\* An onerror that takes no error for an expected one.
benignNever(errorType) == FALSE

\* errorType is 'no-speech' or 'aborted' (useSpeech.ts:142)
benign(errorType) == errorType \in {"no-speech", "aborted"}

\* recognition.onerror (useSpeech.ts:138-147), then the render; the object
\* ends after an error
RecOnError(errorType) ==
    /\ engine \in {"running", "stopping"}
    /\ IF detached(torn) THEN Dropped("stopping")
       ELSE
       /\ IF benign(errorType)
          THEN /\ engine' = "stopping"
               /\ UNCHANGED <<isListening, shouldListen>>
          ELSE /\ isListening' = FALSE
               /\ shouldListen' = FALSE
               /\ engine' = IF isListening THEN listeningEffect(FALSE, "stopping")
                            ELSE "stopping"
       /\ fired' = [kind |-> "error", error |-> errorType]
       /\ UNCHANGED <<transcript, commandsRef, lastCommandAt, restarts, now,
                      torn, heard, sessionRan>>
       /\ RecUnchanged

\* A setter that flips the state whatever it is asked to set.
setIsListeningFlips(cur, l) == ~cur

\* setIsListening(l)
setIsListening(cur, l) == l

\* A call of the hook's caller that asks for isListening = l, then the
\* render; the listening effect runs if isListening changed.
Listen(call, l) ==
    /\ ~torn
    /\ isListening' = setIsListening(isListening, l)
    /\ shouldListen' = IF isListening' # isListening THEN isListening' ELSE shouldListen
    /\ engine' = IF isListening' # isListening
                 THEN listeningEffect(isListening', engine) ELSE engine
    /\ sessionRan' = Session(engine', sessionRan, FALSE)
    /\ fired' = IF call = "toggle" THEN NoFire
                ELSE [kind |-> call, again |-> fired.kind = call]
    /\ UNCHANGED <<transcript, commandsRef, lastCommandAt, restarts, now, torn, heard>>
    /\ RecUnchanged

\* startListening (useSpeech.ts:186-188)
startListening == Listen("startListening", TRUE)

\* stopListening (useSpeech.ts:190-192)
stopListening == Listen("stopListening", FALSE)

\* toggleListening (useSpeech.ts:194-200), with the isListening of the
\* latest render
toggleListening == Listen("toggle", ~isListening)

\* The cleanup of the initialising effect (useSpeech.ts:152-164): unmount.
Teardown ==
    /\ ~torn
    /\ torn' = TRUE
    /\ shouldListen' = FALSE
    /\ engine' = recStop(engine)
    /\ fired' = [kind |-> "teardown"]
    /\ UNCHANGED <<isListening, transcript, commandsRef, lastCommandAt, restarts,
                   now, heard, sessionRan>>
    /\ RecUnchanged

\* An event that is no longer within the throttle window of the clock t.
Aged(ev, t) == IF t - ev.at < ThrottleMs THEN ev ELSE NoEvent

\* time passes
Tick ==
    /\ now < StartMs + MaxTicks * TickMs
    /\ now' = now + TickMs
    /\ heard' = <<Aged(heard[1], now'), Aged(heard[2], now')>>
    /\ fired' = NoFire
    /\ UNCHANGED <<isListening, shouldListen, transcript, commandsRef,
                   lastCommandAt, engine, restarts, torn, sessionRan>>
    /\ RecUnchanged

\* The hook after its mount effects, with no command list registered.
RecOff ==
    /\ isListening = FALSE
    /\ shouldListen = FALSE
    /\ transcript = <<>>
    /\ commandsRef = <<>>
    /\ lastCommandAt = 0
    /\ engine = "idle"
    /\ restarts = 0
    /\ now = StartMs
    /\ torn = FALSE
    /\ heard = <<NoEvent, NoEvent>>
    /\ sessionRan = FALSE

\* ------------------------------------------------------------------ Spec
\* The cooking session: StepNavigator with its player.  A voice command's
\* action may run at any time: onresult does not look at the listening
\* intent, and the recognition hook shares no state with the session.
InitPlayer ==
    /\ isSpeaking = FALSE
    /\ ttsSupported \in BOOLEAN
    /\ audioRef = 0
    /\ audio = [n \in NarIds |-> NoAudio]
    /\ synth = <<>>
    /\ nar = [n \in NarIds |-> NoNar]
    /\ last = 0
    /\ lastCall = "none"
    /\ fired = NoFire

InitNav ==
    /\ currentStep = 0
    /\ completedSteps = {}
    /\ storedAutoPlay \in {"true", "false"}
    /\ autoAdvance = initialAutoAdvance(storedAutoPlay)
    /\ isPlaying = FALSE
    /\ timers = [s \in Steps |-> 0]

Init ==
    /\ InitNav
    /\ InitPlayer
    /\ RecOff
    /\ audioSteps \in {{}, Steps}

BrowserEvent ==
    \/ \E n \in NarIds : AudioCanPlay(n)
    \/ \E n \in NarIds : AudioOnEnded(n)
    \/ \E n \in NarIds : AudioLoadError(n)
    \/ \E n \in NarIds : AudioPlayError(n)
    \/ \E n \in NarIds : AudioAbortReject(n)
    \/ SynthOnStart
    \/ SynthOnEnd
    \/ SynthOnError

Next ==
    \/ BrowserEvent
    \/ \E s \in Steps : TimerFire(s)
    \/ ClickNext
    \/ ClickPrev
    \/ \E i \in Steps : ClickPill(i)
    \/ ClickPlayPause
    \/ ClickAutoAdvance
    \/ ClickMarkDone
    \/ resetRecipe
    \/ CmdNext
    \/ CmdBack
    \/ CmdRepeat
    \/ CmdStop
    \/ CmdPlay
    \/ CmdAutoToggle
    \/ CmdAutoOn
    \/ CmdAutoOff

Spec == Init /\ [][Next]_vars

\* ------------------------------------------------------------ SpecPlayer
\* useSpeechSynthesis on its own, under a caller that calls speak() and
\* stop() at any time.  As in StepNavigator, an onEnd is passed only where
\* synthesis is supported (part_005:295); the onEnd passed is only observed.
CallSpeak(step, cb, url, blocked) ==
    /\ cb = "probe" => ttsSupported
    /\ PlayerOnly([speak(Player, step, cb, FALSE, url, blocked) EXCEPT !.lastCall = "speak"],
                  [kind |-> "speak", url |-> url, blocked |-> blocked])

CallStop ==
    PlayerOnly([stop(Player) EXCEPT
                   !.nar = [n \in NarIds |->
                              IF InProgress(Player, n)
                              THEN [nar[n] EXCEPT !.stopped = TRUE]
                              ELSE nar[n]],
                   !.lastCall = "stop"],
               [kind |-> "stop"])

NextPlayer ==
    \/ BrowserEvent
    \/ \E step \in Steps, cb \in {"probe", "none"}, url \in BOOLEAN :
          \E blocked \in Refusals(url) : CallSpeak(step, cb, url, blocked)
    \/ CallStop

InitCaller ==
    /\ InitNav /\ storedAutoPlay = "false"
    /\ InitPlayer
    /\ RecOff
    /\ audioSteps = {}

SpecPlayer == InitCaller /\ [][NextPlayer]_vars

\* -------------------------------------------------------------- SpecHooks
\* Both hooks under one caller that calls speak(), stop(), startListening()
\* and stopListening() at any time; no command list is registered and the
\* engine reports no result.
NextHooks ==
    \/ NextPlayer
    \/ startListening
    \/ stopListening
    \/ RecOnEnd
    \/ RestartFire

SpecHooks == InitCaller /\ [][NextHooks]_vars

\* --------------------------------------------------------------- SpecRec
\* useSpeechRecognition on its own, with a command list of its caller.
InitRec ==
    /\ InitNav /\ storedAutoPlay = "false"
    /\ InitPlayer /\ ttsSupported
    /\ audioSteps = {}
    /\ isListening = FALSE
    /\ shouldListen = FALSE
    /\ transcript = <<>>
    /\ commandsRef \in CommandLists
    /\ lastCommandAt = 0
    /\ engine = "idle"
    /\ restarts = 0
    /\ now = StartMs
    /\ torn = FALSE
    /\ heard = <<NoEvent, NoEvent>>
    /\ sessionRan = FALSE

NextRec ==
    \/ \E results \in ResultLists : OnResult(results)
    \/ RecOnEnd
    \/ RestartFire
    \/ \E errorType \in {"no-speech", "aborted", "network"} : RecOnError(errorType)
    \/ toggleListening
    \/ Tick

SpecRec == InitRec /\ [][NextRec]_vars

\* -------------------------------------------------------------- SpecLife
\* The life cycle of useSpeechRecognition: every call of its caller, the
\* unmount, and an engine that delivers a few utterances.
Nex == <<"n", "e", "x">>

NextStepPlease ==
    <<"n", "e", "x", "t", " ", "s", "t", "e", "p", " ",
      "p", "l", "e", "a", "s", "e">>

\* { phrases: ['next', 'skip'] }
NextSkip == << << <<"n", "e", "x", "t">>, <<"s", "k", "i", "p">> >> >>

\* The result events of the utterances: a fragment and the whole of "next
\* step please", interim and final, and silence.
LifeResults ==
    { <<[isFinal |-> FALSE, text |-> Nex]>>,
      <<[isFinal |-> FALSE, text |-> NextStepPlease]>>,
      <<[isFinal |-> TRUE, text |-> NextStepPlease]>>,
      <<[isFinal |-> TRUE, text |-> <<>>]>> }

InitLife ==
    /\ InitNav /\ storedAutoPlay = "false"
    /\ InitPlayer /\ ttsSupported
    /\ audioSteps = {}
    /\ isListening = FALSE
    /\ shouldListen = FALSE
    /\ transcript = <<>>
    /\ commandsRef = NextSkip
    /\ lastCommandAt = 0
    /\ engine = "idle"
    /\ restarts = 0
    /\ now = StartMs
    /\ torn = FALSE
    /\ heard = <<NoEvent, NoEvent>>
    /\ sessionRan = FALSE

NextLife ==
    \/ \E results \in LifeResults : OnResult(results)
    \/ RecOnEnd
    \/ RestartFire
    \/ \E errorType \in {"no-speech", "aborted", "network"} : RecOnError(errorType)
    \/ startListening
    \/ stopListening
    \/ toggleListening
    \/ Teardown
    \/ Tick

SpecLife == InitLife /\ [][NextLife]_vars

\* The same, with the scheduling the browser gives: a timer that was set
\* fires (setTimeout, useSpeech.ts:126-134), and an engine that was asked to
\* stop or that reported an error delivers its end event.
SpecLifeFair ==
    /\ SpecLife
    /\ WF_vars(RestartFire)
    /\ WF_vars(engine = "stopping" /\ RecOnEnd)

\* ================================================================ claims
\* C1: the cursor stays within [0, steps.length - 1] after any sequence of
\* operations and timer firings.
C1_CursorInRange == currentStep \in Steps

\* C2: when the pause timer fires after AutoPlaying was left during the
\* pause, the cursor is unchanged and no narration begins.
C2_PauseCancelled ==
    (fired.kind = "timer" /\ fired.after = "exit")
        => (currentStep = fired.from /\ ~fired.spoke)

\* The pause after the narration of the current step elapses with
\* AutoPlaying and auto-advance on and the cursor before the last step.
PauseElapsed ==
    /\ fired.kind = "timer"
    /\ fired.playing /\ fired.adv
    /\ fired.from = fired.step /\ fired.from < NumSteps - 1

\* C3: when that pause elapses the cursor has moved forward by one, the
\* session is still AutoPlaying, and the narration of the new current step
\* has begun, with a completion callback.
C3_AutoAdvance ==
    PauseElapsed =>
        /\ currentStep = fired.from + 1
        /\ isPlaying
        /\ fired.spoke
        /\ nar[last].step = currentStep /\ nar[last].cb = "auto"
        /\ InProgress(Player, last)

C3_Witness ==
    /\ PauseElapsed
    /\ currentStep = fired.from + 1 /\ isPlaying /\ fired.spoke
    /\ nar[last].step = currentStep /\ nar[last].cb = "auto"

\* The n-th call is heard: its clip plays or its utterance is spoken.
Sounding(n) ==
    \/ audio[n].st = "playing"
    \/ synth # <<>> /\ synth[1].st = "speaking" /\ synth[1].nar = n

\* C4: at most one backend is sounding, and what sounds belongs to the most
\* recent speak() call.
C4_SingleNarration ==
    /\ \A n \in NarIds : Sounding(n) => n = last
    /\ ~(\E n \in NarIds : audio[n].st = "playing"
         /\ synth # <<>> /\ synth[1].st = "speaking")

\* C5: the completion callback of a speak() call that a later speak() call
\* superseded never fires, and a callback fires once.
C5_SupersededNeverCompletes ==
    fired.kind = "onEnd" => (~fired.stale /\ fired.cbs = 1)

\* C6: the completion callback of a speak() call that was in progress when
\* stop() was called is never invoked afterwards.
C6_NoCompletionAfterStop ==
    fired.kind = "onEnd" => ~fired.stopped

\* The n-th call has exactly one utterance in the synthesis queue.
SynthesizedOnce(n) ==
    Cardinality({i \in 1 .. Len(synth) : synth[i].nar = n}) = 1

\* C7: when the clip of the current speak(text, cb, audioUrl) call fails, by
\* a rejection of play(), an error event or both, the text is handed to
\* the synthesis backend, as one utterance, and cb fires once, when the
\* synthesized utterance ends, never from the clip.
C7_FallbackOnce ==
    /\ (fired.kind = "clipFailed" /\ ~fired.cut /\ nar[fired.nar].cb = "probe")
          => SynthesizedOnce(fired.nar)
    /\ (fired.kind = "speak" /\ fired.blocked /\ nar[last].cb = "probe")
          => SynthesizedOnce(last)
    /\ (fired.kind = "onEnd" /\ fired.audioDown /\ ~fired.stale /\ ~fired.stopped)
          => (fired.via = "synth" /\ fired.cbs = 1)

C7_Witness ==
    /\ fired.kind = "onEnd" /\ fired.audioDown
    /\ ~fired.stale /\ ~fired.stopped
    /\ fired.via = "synth" /\ fired.cbs = 1

\* C8: from a stop() until the next speak(), isSpeaking is false, no clip is
\* loading or playing and nothing is handed to the synthesis backend.
C8_StopStaysQuiet ==
    lastCall = "stop" =>
        /\ ~isSpeaking
        /\ synth = <<>>
        /\ \A n \in NarIds : audio[n].st \notin {"loading", "playing"}
\* p occurs in str as a substring.
Occurs(p, str) ==
    \E a \in 0 .. Len(str) : \E b \in a .. Len(str) : SubSeq(str, a + 1, b) = p

\* The commands of C with a phrase that occurs, case-insensitively, in
\* lowercase(trim(T)).
Matching(T, C) ==
    {k \in 1 .. Len(C) :
        \E j \in 1 .. Len(C[k]) : Occurs(toLowerCase(C[k][j]), toLowerCase(trim(T)))}

FirstInOrder(T, C) ==
    IF Matching(T, C) = {} THEN 0
    ELSE CHOOSE k \in Matching(T, C) : \A m \in Matching(T, C) : k <= m

\* C9: for every transcript T and ordered command list C, a result event
\* that no throttle applies to runs the effect of the first command in
\* C-order one of whose phrases occurs in lowercase(trim(T)), and of no
\* other command; it runs no effect if there is no such command.
C9_FirstCommandWins ==
    (fired.kind = "result" /\ ~fired.window)
        => fired.ran = FirstInOrder(fired.text, commandsRef)

C9_Witness ==
    /\ fired.kind = "result" /\ ~fired.window
    /\ fired.ran = 1
    /\ 2 \in Matching(fired.text, commandsRef)

\* Two successive result events that each match a command and arrive less
\* than the throttle window apart.
ClosePair ==
    /\ heard[1].matched /\ heard[2].matched
    /\ heard[2].at - heard[1].at < ThrottleMs

\* C10, as stated: such a pair produces exactly one effect invocation, that
\* of the first event.
C10_OneEffectPerPair == ClosePair => (heard[1].ran /\ ~heard[2].ran)

\* C10, amended: if the first event of such a pair runs its command's
\* effect, the second runs none.
C10_SecondSuppressed == (ClosePair /\ heard[1].ran) => ~heard[2].ran

C10_Witness == ClosePair /\ heard[1].ran /\ ~heard[2].ran
\* C11: at most one command action runs for one matched utterance, that
\* is, within one session of the engine (a match stops the engine),
\* however the engine's result events for it are spaced in time.
C11_OneEffectPerUtterance == fired.kind = "result" => ~fired.again

\* A result event that has just been handled, whose transcript matches a
\* registered command and to which no throttle applies.
FreshMatch ==
    /\ fired'.kind = "result"
    /\ Matching(fired'.text, commandsRef) # {}
    /\ ~fired'.window

\* C12: on a match that is not throttled one command's action runs, the
\* exposed transcript becomes empty and the engine is asked to stop; the
\* end of the engine while the listening intent holds schedules a restart,
\* and the restart starts the ended engine if the intent still holds.  Of
\* the stream "nex", "next step please" with the phrases next and skip the
\* first result runs nothing and the second, not throttled, runs the
\* command.
C12_MatchRunsStopsRestarts ==
    [][/\ FreshMatch => /\ fired'.ran \in 1 .. Len(commandsRef)
                        /\ transcript' = <<>>
                        /\ engine' = "stopping"
       /\ (fired'.kind = "result" /\ fired'.text = Nex) => fired'.ran = 0
       /\ (fired'.kind = "result" /\ fired'.text = NextStepPlease /\ ~fired'.window)
             => fired'.ran = 1
       /\ (~torn /\ engine # "idle" /\ engine' = "idle" /\ shouldListen)
             => restarts' = restarts + 1
       /\ (fired'.kind = "restart" /\ fired'.intent /\ engine = "idle")
             => engine' = "running"]_vars

\* The engine was restarted by the timer after a command ran.
C12_Witness ==
    /\ fired.kind = "restart" /\ fired.intent
    /\ engine = "running"
    /\ lastCommandAt > 0
    /\ transcript = <<>>

\* C13: a result event whose transcript contains no phrase of any
\* registered command only updates the exposed transcript: no command's
\* action runs, the throttle timestamp, the engine and the listening intent
\* stay as they were and no restart is scheduled.
C13_NoMatchOnlyTranscript ==
    [][(fired'.kind = "result" /\ Matching(fired'.text, commandsRef) = {})
          => /\ fired'.ran = 0
             /\ transcript' = fired'.text
             /\ UNCHANGED <<lastCommandAt, engine, shouldListen, isListening,
                            restarts, commandsRef>>]_vars

\* A result with a transcript that matches nothing was handled while a
\* command list was registered and no throttle applied.
C13_Witness ==
    /\ fired.kind = "result" /\ ~fired.window
    /\ fired.text # <<>>
    /\ commandsRef # <<>>
    /\ Matching(fired.text, commandsRef) = {}
    /\ transcript = fired.text

\* C14: a call of startListening that directly follows another call of
\* startListening changes nothing: the hook still listens with one intent,
\* the one engine is in the state the first call left it in, and nothing
\* else of the hook's state moves.
C14_StartTwice ==
    [][(fired.kind = "startListening" /\ fired'.kind = "startListening")
          => /\ isListening' /\ shouldListen'
             /\ UNCHANGED <<isListening, shouldListen, engine, restarts, transcript,
                            lastCommandAt, commandsRef, torn, sessionRan>>]_vars

\* startListening was called twice in a row and the engine captures.
C14_Witness ==
    /\ fired.kind = "startListening" /\ fired.again
    /\ isListening /\ shouldListen
    /\ engine = "running"

\* The player is stopped or has never spoken: it does not report speaking,
\* holds no audio element and no utterance is queued.
PlayerIdle == ~isSpeaking /\ audioRef = 0 /\ synth = <<>>

\* C15: stopListening() and the player's stop() can be called in every
\* state, also before any startListening() or speak(), and raise nothing;
\* stopListening() while not listening leaves the recognition hook's state
\* as it is, and stop() on an idle player leaves the player's state as it
\* is.
C15_StopAnytime ==
    /\ [](ENABLED CallStop /\ (~torn => ENABLED stopListening))
    /\ [][/\ (fired'.kind = "stopListening" /\ ~isListening)
               => UNCHANGED <<recVars, playerVars, navVars>>
          /\ (fired'.kind = "stop" /\ PlayerIdle)
               => UNCHANGED <<isSpeaking, audioRef, audio, synth, nar, last,
                              recVars, navVars>>]_vars

\* stop() was called on a player that speak() was never called on, and
\* stopListening() was called twice in a row on a hook that never listened.
C15_Witness ==
    /\ lastCall = "stop" /\ last = 0 /\ PlayerIdle
    /\ fired.kind = "stopListening" /\ fired.again
    /\ ~isListening /\ engine = "idle"

\* No restart timer is pending and the engine owes no end event.
Drained == restarts = 0 /\ engine # "stopping"

\* C16: while the hook is mounted, once the pending restart timers and
\* engine events have drained the engine captures if and only if
\* isListening is true; and whenever isListening is true (the engine has
\* ended, or was never started, or is stopping), the engine captures again
\* later unless the intent is withdrawn or the hook unmounted first.
C16_IntentAndEngineConverge ==
    /\ []((~torn /\ Drained) => (engine = "running" <=> isListening))
    /\ ((~torn /\ isListening) ~> (engine = "running" \/ ~isListening \/ torn))

\* The engine ended of itself while the hook listened, and the timer has
\* started it again.
C16_Witness ==
    /\ fired.kind = "restart" /\ fired.intent
    /\ ~torn /\ Drained
    /\ engine = "running" /\ isListening
    /\ lastCommandAt = 0

\* C17: a restart timer that fires after the listening intent was cleared
\* (by stopListening, by an error that is not expected, or by the unmount)
\* does not start the engine: the engine and the rest of the hook's state
\* stay as they are.
C17_StaleTimerStartsNothing ==
    [][(fired'.kind = "restart" /\ ~fired'.intent)
          => /\ engine' = engine
             /\ engine' # "running"
             /\ UNCHANGED <<isListening, shouldListen, transcript, lastCommandAt>>]_vars

\* The timer of an engine that ended while the hook listened fired after
\* the intent was cleared, and found the engine ended.
C17_Witness ==
    /\ fired.kind = "restart" /\ ~fired.intent
    /\ engine = "idle"
    /\ ~shouldListen

\* The last step handled an engine error of one of the two expected types.
ExpectedError == fired.kind = "error" /\ fired.error \in {"no-speech", "aborted"}

\* C18: an engine error of type no-speech or aborted changes neither
\* isListening nor the listening intent (nor the transcript, the throttle
\* timestamp or the timers), and the session goes on: if the hook listens,
\* the engine captures again after the error unless the intent is
\* withdrawn or the hook unmounted first.
C18_ExpectedErrorKeepsListening ==
    /\ [][ExpectedError'
             => UNCHANGED <<isListening, shouldListen, transcript, lastCommandAt,
                            restarts, commandsRef>>]_vars
    /\ ((ExpectedError /\ isListening /\ shouldListen)
           ~> (engine = "running" \/ ~isListening \/ torn))

\* An expected error was reported while the hook listened; the hook still
\* listens and the engine is about to end.
C18_Witness ==
    /\ ExpectedError
    /\ isListening /\ shouldListen /\ ~torn
    /\ engine = "stopping"

\* The last step handled an engine error of another type than the two
\* expected ones.
FatalError == fired.kind = "error" /\ fired.error \notin {"no-speech", "aborted"}

\* A step in which the caller turns listening on.
TurnedOn == ~isListening /\ isListening'

\* C19: an engine error other than no-speech and aborted sets isListening
\* and the listening intent to false; and while the intent is false
\* nothing but a call that turns listening on sets it again or starts the
\* engine: not the end event that follows the error and not a restart
\* timer that was pending.
C19_FatalErrorStopsForGood ==
    [][/\ FatalError' => (~isListening' /\ ~shouldListen' /\ engine' # "running")
       /\ (~shouldListen /\ shouldListen') => TurnedOn
       /\ (~shouldListen /\ engine # "running" /\ engine' = "running") => TurnedOn
       /\ (~shouldListen /\ ~TurnedOn) => restarts' <= restarts]_vars

\* A fatal error was reported while a restart timer was pending.
C19_Witness ==
    /\ FatalError
    /\ ~isListening /\ ~shouldListen
    /\ restarts > 0
    /\ engine = "stopping"

\* C20: once the hook is unmounted, no result is handled (so no command's
\* action runs), the transcript, isListening, the intent and the throttle
\* timestamp keep their values, no timer is set and the engine is never
\* started, whichever engine event or pending timer fires.
C20_NothingAfterTeardown ==
    [][torn => /\ fired'.kind \notin {"result", "error", "startListening", "stopListening"}
               /\ UNCHANGED <<transcript, isListening, shouldListen, lastCommandAt,
                              commandsRef, torn>>
               /\ restarts' <= restarts
               /\ engine' = "running" => engine = "running"]_vars

\* After the unmount the engine delivered an event for which no handler is
\* registered any more, while a restart timer was still pending.
C20_Witness ==
    /\ torn
    /\ fired.kind = "dropped"
    /\ restarts > 0

\* A narration started by AutoPlaying is in progress: loading, queued or
\* audible.
AutoNarrating ==
    /\ isPlaying
    /\ last \in NarIds /\ nar[last].cb = "auto"
    /\ InProgress(Player, last)

\* C21: switching auto-advance off, by the control or by a voice command,
\* while AutoPlaying with a narration in progress leaves that narration as
\* it is: no new speak() call is made, its clip or utterance keeps its
\* state.
C21_ToggleKeepsNarration ==
    [][(AutoNarrating /\ autoAdvance /\ (ClickAutoAdvance \/ CmdAutoToggle \/ CmdAutoOff))
          => /\ last' = last
             /\ nar'[last] = nar[last]
             /\ audio'[last] = audio[last]
             /\ synth' = synth
             /\ audioRef' = audioRef]_vars

\* The step is the completion (clip ended or utterance ended) of the
\* narration in progress of the latest speak() call, which AutoPlaying
\* made and no stop() has touched.
AutoNarrationCompletes ==
    /\ last \in NarIds /\ nar[last].cb = "auto" /\ ~nar[last].stopped
    /\ \/ AudioOnEnded(last)
       \/ synth # <<>> /\ synth[1].nar = last /\ SynthOnEnd

\* C22: when a narration started by AutoPlaying completes while
\* auto-advance is off or the cursor is at the last index, AutoPlaying is
\* left, the cursor stays and no advance is scheduled.
C22_CompletionWithoutAdvance ==
    [][(AutoNarrationCompletes /\ (~autoAdvance \/ currentStep = NumSteps - 1))
          => /\ ~isPlaying'
             /\ currentStep' = currentStep
             /\ timers' = timers]_vars

\* The step toggles the auto-advance preference: the control of the
\* settings panel, the "auto play" command, or "turn off auto play" while
\* the preference is on.
TogglesAutoAdvance ==
    \/ ClickAutoAdvance
    \/ CmdAutoToggle
    \/ autoAdvance /\ CmdAutoOff

CallsGoToNext == ClickNext \/ CmdNext \/ \E s \in Steps : TimerFire(s)

\* The step is a call of goToPrev: by the Previous button or the back
\* command.
CallsGoToPrev == ClickPrev \/ CmdBack

\* C24: a call of goToNext with the cursor at the last index leaves the
\* cursor where it is, and with the cursor before the last index moves it
\* forward by one; a call of goToPrev with the cursor at 0 leaves it, and
\* with the cursor after 0 moves it back by one.
C24_MovesClamped ==
    [][/\ (CallsGoToNext /\ currentStep \in Steps)
            => currentStep' = IF currentStep = NumSteps - 1
                              THEN currentStep ELSE currentStep + 1
       /\ (CallsGoToPrev /\ currentStep \in Steps)
            => currentStep' = IF currentStep = 0
                              THEN currentStep ELSE currentStep - 1]_vars

\* The step is a navigation to the next or previous step, by a button or
\* by a voice command.
Navigates == ClickNext \/ ClickPrev \/ CmdNext \/ CmdBack

\* No utterance is queued or spoken and no clip is loading or playing.
Silent ==
    /\ synth = <<>>
    /\ \A n \in NarIds : audio[n].st \notin {"loading", "playing"}

\* C25: after a navigation to the next or previous step no narration is in
\* progress, whether one was loading, queued or audible before, and
\* AutoPlaying is left, so that none is started for the new step.
C25_NavigationSilences == [][Navigates => (Silent' /\ ~isPlaying')]_vars

\* Nothing is left that narrates or moves the cursor without user input:
\* no narration is in progress, no pause timer is set, and no play() promise
\* is about to be rejected (its catch starts the synthesis).
Settled ==
    /\ Silent
    /\ TimerCount = 0
    /\ \A n \in NarIds : ~audio[n].rej

\* C26: the stop command leaves AutoPlaying and stops the narration at
\* once, and changes neither the cursor nor the completed set; it leaves
\* nothing behind that starts a narration or moves the cursor before the
\* next user input.
C26_StopCommandSettles ==
    [][CmdStop => /\ ~isPlaying'
                  /\ UNCHANGED <<currentStep, completedSteps>>
                  /\ Settled']_vars

\* The latest speak() call is the only narration in progress.
OnlyLatestInProgress ==
    /\ InProgress(Player, last)
    /\ \A n \in NarIds \ {last} : ~InProgress(Player, n)

\* C27: the repeat command, with the cursor on a step and a backend that
\* can narrate, makes a new speak() call for the current step without a
\* completion callback; that call is then the only narration in progress,
\* whatever was in progress before; isPlaying, the cursor, the completed
\* set and the preference stay as they were.
C27_RepeatNarratesCurrentStep ==
    [][(CmdRepeat /\ currentStep \in Steps /\ ttsSupported)
          => /\ UNCHANGED <<isPlaying, currentStep, completedSteps, autoAdvance, timers>>
             /\ last' \in NarIds
             /\ nar'[last'].step = currentStep /\ nar'[last'].cb = "none"
             /\ ~nar'[last'].stopped
             /\ OnlyLatestInProgress']_vars

\* The repeat command was given while AutoPlaying: its narration of the
\* current step is in progress and AutoPlaying still holds.
C27_Witness ==
    /\ isPlaying
    /\ last \in NarIds /\ nar[last].cb = "none" /\ nar[last].step = currentStep
    /\ currentStep = 1
    /\ OnlyLatestInProgress

\* The step is the play command or the play control, given while not
\* AutoPlaying, with synthesis supported and the cursor on a step.
PlayGiven ==
    /\ ~isPlaying /\ ttsSupported /\ currentStep \in Steps
    /\ (CmdPlay \/ ClickPlayPause)

\* C28: the play command or control given while not AutoPlaying, with
\* synthesis supported, enters AutoPlaying and starts the narration of the
\* current step with the auto-play completion callback, which is then the
\* only narration in progress; the cursor and the completed set stay.
C28_PlayStartsNarration ==
    [][PlayGiven
          => /\ isPlaying'
             /\ UNCHANGED <<currentStep, completedSteps, autoAdvance>>
             /\ last' \in NarIds
             /\ nar'[last'].step = currentStep /\ nar'[last'].cb = "auto"
             /\ nar'[last'].adv = autoAdvance
             /\ OnlyLatestInProgress']_vars

\* Play was given while not AutoPlaying on the second step: AutoPlaying
\* holds and the narration of that step, with its callback, is in progress.
C28_Witness ==
    /\ fired.kind = "play"
    /\ isPlaying /\ currentStep = 1
    /\ last \in NarIds /\ nar[last].step = 1 /\ nar[last].cb = "auto"
    /\ OnlyLatestInProgress

\* C29: toggleStepComplete(i) flips the membership of i in the completed
\* set and of no other step, and applied twice gives the set back; the
\* step that applies it changes nothing else (cursor, isPlaying,
\* preference, timers, narration); and the completed set changes in no
\* other step than that one and the reset, which empties it.
C29_ToggleStepComplete ==
    /\ [](\A i \in Steps :
             /\ (i \in toggleStepComplete(completedSteps, i)) <=> (i \notin completedSteps)
             /\ toggleStepComplete(completedSteps, i) \ {i} = completedSteps \ {i}
             /\ toggleStepComplete(toggleStepComplete(completedSteps, i), i) = completedSteps)
    /\ [][/\ ClickMarkDone
               => /\ completedSteps' = toggleStepComplete(completedSteps, currentStep)
                  /\ UNCHANGED <<currentStep, isPlaying, autoAdvance, storedAutoPlay,
                                 timers, isSpeaking, audioRef, audio, synth, nar, last>>
          /\ completedSteps' # completedSteps
               => \/ ClickMarkDone
                  \/ resetRecipe /\ completedSteps' = {}]_vars

\* The first step was marked done, and the mark is still there with the
\* cursor on the second step and a narration of that step by AutoPlaying in
\* progress.
C29_Witness ==
    /\ completedSteps = {0}
    /\ currentStep = 1
    /\ AutoNarrating
    /\ nar[last].step = 1

\* C30: resetRecipe, in any state, leaves the controller in its initial
\* state: cursor 0, no step completed, AutoPlaying left and no narration
\* in progress; the auto-advance preference stays as it is.
C30_ResetToInitial ==
    [][resetRecipe => /\ currentStep' = 0
                      /\ completedSteps' = {}
                      /\ ~isPlaying'
                      /\ Silent'
                      /\ UNCHANGED <<autoAdvance, storedAutoPlay>>]_vars

\* C31: a pause timer that fires after AutoPlaying was left (by a manual
\* next or previous, a jump to a step, or the reset) does not move the
\* cursor: the cursor stays the one that operation set.
C31_TimerAfterExitKeepsCursor ==
    [][(~isPlaying /\ fired.kind # "exit" /\ \E s \in Steps : TimerFire(s))
          => currentStep' = currentStep]_vars

\* ---------------------------------------------------------- SpecDegraded
\* The cooking session with its microphone: the session of Spec where
\* narration can fail for good (no synthesis, or synthesis without clips),
\* with the recognition hook started and stopped by the microphone button
\* and ended by a fatal error.  A voice command's action runs only while the
\* hook listens and the engine runs.
Listening == isListening /\ engine = "running"

InitDegraded ==
    /\ InitNav
    /\ InitPlayer
    /\ RecOff
    /\ \/ ~ttsSupported /\ audioSteps \in {{}, Steps}
       \/ ttsSupported /\ audioSteps = {}

NextDegraded ==
    \/ BrowserEvent
    \/ \E s \in Steps : TimerFire(s)
    \/ ClickNext
    \/ ClickPrev
    \/ \E i \in Steps : ClickPill(i)
    \/ ClickPlayPause
    \/ ClickMarkDone
    \/ resetRecipe
    \/ Listening /\ CmdNext
    \/ Listening /\ CmdBack
    \/ Listening /\ CmdRepeat
    \/ Listening /\ CmdPlay
    \/ Listening /\ CmdAutoOn
    \/ toggleListening
    \/ RecOnEnd
    \/ RestartFire
    \/ RecOnError("network")

SpecDegraded == InitDegraded /\ [][NextDegraded]_vars

\* C32: without synthesis, entering AutoPlaying calls no speak() and nothing
\* moves the cursor by itself (no narration carries the auto-play callback
\* and no pause timer is ever set); and in every state, among them those
\* after a fatal recognition error or a failed narration, the buttons of a
\* shown step are there and they and the voice commands do what they are for: next,
\* previous and a pill set the cursor, mark-done toggles the shown step, the
\* reset clears cursor and completed steps.
C32_DegradedStillNavigates ==
    /\ [](~ttsSupported =>
             /\ TimerCount = 0
             /\ \A n \in NarIds : nar[n].cb # "auto")
    /\ [][~ttsSupported /\ (CmdPlay \/ CmdAutoOn) => isPlaying' /\ last' = last]_vars
    /\ []( /\ currentStep \in Steps \ {NumSteps - 1} => ENABLED ClickNext
           /\ currentStep \in Steps \ {0} => ENABLED ClickPrev
           /\ currentStep \in Steps => ENABLED ClickMarkDone
           /\ \A i \in Steps : ENABLED ClickPill(i)
           /\ ENABLED resetRecipe )
    /\ [][ /\ ClickNext => currentStep' = currentStep + 1
           /\ ClickPrev => currentStep' = currentStep - 1
           /\ \A i \in Steps : ClickPill(i) => currentStep' = i
           /\ CmdNext => currentStep' = IF currentStep < NumSteps - 1
                                        THEN currentStep + 1 ELSE currentStep
           /\ CmdBack => currentStep' = IF currentStep > 0
                                        THEN currentStep - 1 ELSE currentStep
           /\ ClickMarkDone =>
                 /\ currentStep \in completedSteps' <=> currentStep \notin completedSteps
                 /\ \A i \in Steps \ {currentStep} :
                       i \in completedSteps' <=> i \in completedSteps
           /\ resetRecipe => currentStep' = 0 /\ completedSteps' = {} ]_vars

\* AutoPlaying was entered by voice where synthesis is unsupported, nothing
\* was ever spoken or scheduled, and the session was navigated to the second
\* step and a step marked complete.
C32_Witness ==
    /\ ~ttsSupported /\ isPlaying /\ last = 0 /\ TimerCount = 0
    /\ currentStep = 1 /\ completedSteps # {}

\* A backend has something in progress: a clip loading or playing, or an
\* utterance queued or spoken.
BackendBusy ==
    \/ synth # <<>>
    \/ \E n \in NarIds : audio[n].st \in {"loading", "playing"}

\* C33: the player is never left with isSpeaking true while no backend has
\* anything in progress: after a clip fails to load or to play, after a
\* synthesis error, or where synthesis is unsupported, either the other
\* backend is at work or isSpeaking is false.
C33_SpeakingHasBackend == isSpeaking => BackendBusy

\* ---------------------------------------------------------- SpecCommands
\* useSpeechRecognition under a caller that renders again with another
\* command array while the engine listens.
\* { phrases: ['back', 'previous'] }
BackPrevious ==
    << << <<"b", "a", "c", "k">>, <<"p", "r", "e", "v", "i", "o", "u", "s">> >> >>

GoBack == <<"g", "o", " ", "b", "a", "c", "k">>

\* The command arrays of the caller's renders.
SuppliedLists == {NextSkip, BackPrevious, NextSkip \o BackPrevious}

SuppliedResults ==
    LifeResults \cup {<<[isFinal |-> TRUE, text |-> GoBack]>>}

\* An effect that ran once, on mount, and keeps the array of the first render.
commandsEffectOnce(cur, commands) == cur

\* commandsRef.current = commands (useSpeech.ts:61-63)
commandsEffect(cur, commands) == commands

\* The caller renders with the array `commands`; the effect stores it.
SupplyCommands(commands) ==
    /\ ~torn
    /\ commands # commandsRef
    /\ commandsRef' = commandsEffect(commandsRef, commands)
    /\ fired' = [kind |-> "commands", supplied |-> commands]
    /\ UNCHANGED <<isListening, shouldListen, transcript, lastCommandAt, engine,
                   restarts, now, torn, heard, sessionRan>>
    /\ RecUnchanged

InitCommands ==
    /\ InitNav /\ storedAutoPlay = "false"
    /\ InitPlayer /\ ttsSupported
    /\ audioSteps = {}
    /\ isListening = FALSE
    /\ shouldListen = FALSE
    /\ transcript = <<>>
    /\ commandsRef = NextSkip
    /\ lastCommandAt = 0
    /\ engine = "idle"
    /\ restarts = 0
    /\ now = StartMs
    /\ torn = FALSE
    /\ heard = <<NoEvent, NoEvent>>
    /\ sessionRan = FALSE

NextCommands ==
    \/ \E results \in SuppliedResults : OnResult(results)
    \/ \E commands \in SuppliedLists : SupplyCommands(commands)
    \/ RecOnEnd
    \/ RestartFire
    \/ startListening
    \/ stopListening
    \/ Tick

SpecCommands == InitCommands /\ [][NextCommands]_vars

\* C34: the list a result event is matched against is the one most recently
\* supplied: a render with another array leaves that array in commandsRef,
\* nothing else changes commandsRef, and a result event runs only a command
\* of the list commandsRef holds then, one of whose phrases the transcript
\* contains; a command of a replaced list runs no more.
C34_LatestCommandsMatched ==
    /\ [][\A commands \in SuppliedLists :
             SupplyCommands(commands) => commandsRef' = commands]_vars
    /\ [][commandsRef' # commandsRef =>
             \E commands \in SuppliedLists : SupplyCommands(commands)]_vars
    /\ [][(\E results \in SuppliedResults : OnResult(results)) =>
             fired'.ran \in {0} \cup Matching(fired'.text, commandsRef)]_vars

\* The list of the first render, 'next'/'skip', was replaced by
\* 'back'/'previous'; then "next step please" was heard outside the throttle
\* window and ran nothing.
C34_Witness ==
    /\ commandsRef = BackPrevious
    /\ fired.kind = "result" /\ fired.text = NextStepPlease
    /\ ~fired.window /\ fired.ran = 0

\* ------------------------------------------------------------- SpecVoice
\* useSpeechRecognition with the command list of StepNavigator
\* (part_005:245-278), under an engine that hears each registered phrase.
VoiceCommands ==
    <<
      \* { phrases: ['next', 'next step', 'go next', 'skip'] }
      << <<"n", "e", "x", "t">>,
         <<"n", "e", "x", "t", " ", "s", "t", "e", "p">>,
         <<"g", "o", " ", "n", "e", "x", "t">>,
         <<"s", "k", "i", "p">> >>,
      \* { phrases: ['back', 'previous', 'go back', 'last step'] }
      << <<"b", "a", "c", "k">>,
         <<"p", "r", "e", "v", "i", "o", "u", "s">>,
         <<"g", "o", " ", "b", "a", "c", "k">>,
         <<"l", "a", "s", "t", " ", "s", "t", "e", "p">> >>,
      \* { phrases: ['repeat', 'again', 'say again', 'read'] }
      << <<"r", "e", "p", "e", "a", "t">>,
         <<"a", "g", "a", "i", "n">>,
         <<"s", "a", "y", " ", "a", "g", "a", "i", "n">>,
         <<"r", "e", "a", "d">> >>,
      \* { phrases: ['stop', 'pause', 'quiet', 'hush'] }
      << <<"s", "t", "o", "p">>,
         <<"p", "a", "u", "s", "e">>,
         <<"q", "u", "i", "e", "t">>,
         <<"h", "u", "s", "h">> >>,
      \* { phrases: ['play', 'start', 'go', 'begin'] }
      << <<"p", "l", "a", "y">>,
         <<"s", "t", "a", "r", "t">>,
         <<"g", "o">>,
         <<"b", "e", "g", "i", "n">> >>,
      \* { phrases: ['auto play', 'autoplay', 'toggle auto play', 'toggle autoplay'] }
      << <<"a", "u", "t", "o", " ", "p", "l", "a", "y">>,
         <<"a", "u", "t", "o", "p", "l", "a", "y">>,
         <<"t", "o", "g", "g", "l", "e", " ", "a", "u", "t", "o", " ", "p", "l",
           "a", "y">>,
         <<"t", "o", "g", "g", "l", "e", " ", "a", "u", "t", "o", "p", "l", "a",
           "y">> >>,
      \* { phrases: ['turn on auto play', 'enable auto play', 'turn on autoplay', 'enable autoplay'] }
      << <<"t", "u", "r", "n", " ", "o", "n", " ", "a", "u", "t", "o", " ", "p",
           "l", "a", "y">>,
         <<"e", "n", "a", "b", "l", "e", " ", "a", "u", "t", "o", " ", "p", "l",
           "a", "y">>,
         <<"t", "u", "r", "n", " ", "o", "n", " ", "a", "u", "t", "o", "p", "l",
           "a", "y">>,
         <<"e", "n", "a", "b", "l", "e", " ", "a", "u", "t", "o", "p", "l", "a",
           "y">> >>,
      \* { phrases: ['turn off auto play', 'disable auto play', 'turn off autoplay', 'disable autoplay'] }
      << <<"t", "u", "r", "n", " ", "o", "f", "f", " ", "a", "u", "t", "o", " ",
           "p", "l", "a", "y">>,
         <<"d", "i", "s", "a", "b", "l", "e", " ", "a", "u", "t", "o", " ", "p",
           "l", "a", "y">>,
         <<"t", "u", "r", "n", " ", "o", "f", "f", " ", "a", "u", "t", "o", "p",
           "l", "a", "y">>,
         <<"d", "i", "s", "a", "b", "l", "e", " ", "a", "u", "t", "o", "p", "l",
           "a", "y">> >>
    >>

\* One final result per registered phrase.
PhraseResults ==
    {<<[isFinal |-> TRUE, text |-> VoiceCommands[k][j]]>> :
        k \in 1 .. Len(VoiceCommands), j \in 1 .. 4}

InitVoice ==
    /\ InitNav /\ storedAutoPlay = "false"
    /\ InitPlayer /\ ttsSupported
    /\ audioSteps = {}
    /\ isListening = FALSE
    /\ shouldListen = FALSE
    /\ transcript = <<>>
    /\ commandsRef = VoiceCommands
    /\ lastCommandAt = 0
    /\ engine = "idle"
    /\ restarts = 0
    /\ now = StartMs
    /\ torn = FALSE
    /\ heard = <<NoEvent, NoEvent>>
    /\ sessionRan = FALSE

NextVoice ==
    \/ \E results \in PhraseResults : OnResult(results)
    \/ RecOnEnd
    \/ RestartFire
    \/ toggleListening
    \/ Tick

SpecVoice == InitVoice /\ [][NextVoice]_vars

\* C35: for every command StepNavigator registers and each of its phrases,
\* a result event whose transcript is that phrase, and that no throttle
\* applies to, runs that command and no other.
C35_EachPhraseRunsItsCommand ==
    \A k \in 1 .. Len(VoiceCommands) : \A j \in 1 .. Len(VoiceCommands[k]) :
        (fired.kind = "result" /\ ~fired.window /\ fired.text = VoiceCommands[k][j])
            => fired.ran = k

\* C36: a result event runs a command only while the listening intent is
\* true: none after stopListening() or after a fatal error, the results the
\* engine still delivers while it stops included.
C36_NoCommandWithoutIntent ==
    (fired.kind = "result" /\ fired.ran > 0) => shouldListen

\* The completion event of the narration n can arrive now: its clip is
\* playing or its utterance is being spoken.
Completing(n) ==
    \/ audio[n].st = "playing"
    \/ synth # <<>> /\ synth[1].nar = n /\ synth[1].st = "speaking"

\* The completion callback of the narration n sets a pause timer.
SetsTimer(n) ==
    nar[n].used /\ nar[n].cb = "auto" /\ nar[n].adv /\ nar[n].step < NumSteps - 1

ProgressPending ==
    \/ TimerCount > 0
    \/ \E n \in NarIds :
          /\ nar[n].used /\ nar[n].cb = "auto"
          /\ InProgress(Player, n) \/ audio[n].rej

\* C38: whenever the session is AutoPlaying and synthesis is supported,
\* progress is pending; a synthesis error, a failed narration or a repeat do
\* not leave it AutoPlaying with nothing scheduled.
C38_AutoPlayingHasProgress == (isPlaying /\ ttsSupported) => ProgressPending

\* C39: after a handler and the effects of its render, every narration that
\* is loading, queued or audible is of the step at the cursor: after a jump
\* to a step, a manual next or previous, a timer-driven advance or the
\* reset, the narration of the step shown before is not in progress.
C39_NarrationIsOfCurrentStep ==
    \A n \in NarIds :
        (nar[n].used /\ (InQueue(Player, n) \/ audio[n].st \in {"loading", "playing"}))
            => nar[n].step = currentStep

\* A result event that has just been handled, whose transcript matches a
\* registered command, less than the throttle window after the last command
\* that ran.
SuppressedMatch ==
    /\ fired'.kind = "result"
    /\ Matching(fired'.text, commandsRef) # {}
    /\ now - lastCommandAt < ThrottleMs

\* C40: a match inside the throttle window changes nothing but the exposed
\* transcript, which becomes the event's transcript and is not cleared: no
\* command's action runs, neither the matched one nor a later one of the
\* list, the engine is not stopped, and the throttle timestamp stays.
C40_ThrottledMatchOnlyTranscript ==
    [][SuppressedMatch
          => /\ fired'.ran = 0
             /\ transcript' = fired'.text
             /\ UNCHANGED <<lastCommandAt, engine, shouldListen, isListening,
                            restarts, commandsRef, now>>]_vars

\* A result that matches a command was handled inside the throttle window
\* of a command that ran: its transcript is exposed and the engine runs on.
C40_Witness ==
    /\ fired.kind = "result" /\ fired.ran = 0
    /\ Matching(fired.text, commandsRef) # {}
    /\ lastCommandAt > 0 /\ now - lastCommandAt < ThrottleMs
    /\ transcript = fired.text
    /\ engine = "running"
====
